---- MODULE Spec2Model ----
(***************************************************************************)
(* Model of Pymoe.Mal.MAL (src/Pymoe/Mal/__init__.py): the MyAnimeList      *)
(* client.  Every method is an operator that maps (self, arguments, the    *)
(* HTTP responses it receives) to the requests it sends and its outcome    *)
(* (return value or raised exception); one action per public call applies  *)
(* the operator to a constructed client and appends the requests to the    *)
(* wire log.                                                               *)
(*                                                                         *)
(* Texts are sequences of tokens (a token is a run of characters, ";" ,    *)
(* "<br />" or an HTML entity).  An XML element is a record                *)
(* [tag, text, children]; a response body is a record [wf, root] where wf  *)
(* says whether the text is a well-formed document.                        *)
(***************************************************************************)
EXTENDS Integers, Sequences, FiniteSets, TLC

\* ---------------------------------------------------------------- bounds
MaxCalls == 3

\* ------------------------------------------------------ program constants
HTTP_OK == 200
HTTP_CREATED == 201

\* ------------------------------------------------------------ input sets
ClientIds == {"c1", "c2"}
Usernames == {"alice", "bob"}
Passwords == {"pw"}
Statuses == {200, 201, 404}
Terms == {"naruto"}
Names == {"alice"}

\* ------------------------------------------------------- optional values
Some(x) == [isNone |-> FALSE, v |-> x]
None == [isNone |-> TRUE, v |-> <<>>]

\* ----------------------------------------------------------- XML elements
Leaf(t, txt) == [tag |-> t, text |-> txt, children |-> <<>>]
Node(t, ch) == [tag |-> t, text |-> None, children |-> ch]

\* Element.find(tag): the first child with that tag, if any
HasChild(e, t) == \E i \in 1..Len(e.children) : e.children[i].tag = t
find(e, t) ==
  LET idx == {i \in 1..Len(e.children) : e.children[i].tag = t}
      m == CHOOSE i \in idx : \A j \in idx : i <= j
  IN e.children[m]

\* Element.findall(tag): the children with that tag, in document order
IsTag(t, c) == c.tag = t
findall(e, t) == SelectSeq(e.children, LAMBDA c : IsTag(t, c))

\* item.find(t).text is usable as a str: the child exists and has text
HasText(e, t) == HasChild(e, t) /\ ~find(e, t).text.isNone
Text(e, t) == find(e, t).text.v

\* ------------------------------------------------------ string functions
\* str.split(';') on a token sequence: always at least one piece
RECURSIVE split(_)
split(s) ==
  IF \A i \in 1..Len(s) : s[i] /= ";" THEN <<s>>
  ELSE LET k == CHOOSE i \in 1..Len(s) :
                  s[i] = ";" /\ \A j \in 1..(i-1) : s[j] /= ";"
       IN <<SubSeq(s, 1, k-1)>> \o split(SubSeq(s, k+1, Len(s)))

\* str.replace('<br />', '')
NotBr(tok) == tok /= "<br />"
replace_br(s) == SelectSeq(s, NotBr)

\* html.unescape, token by token
unescape_tok(tok) ==
  CASE tok = "&amp;" -> "&"
    [] tok = "&lt;" -> "<"
    [] tok = "&gt;" -> ">"
    [] tok = "&quot;" -> "\""
    [] OTHER -> tok
html_unescape(s) == [i \in 1..Len(s) |-> unescape_tok(s[i])]

\* list.append(x): mutates the list and returns None
list_append(l, x) == [list |-> Append(l, x), ret |-> None]

\* ------------------------------------------------- xml.etree.ElementTree
\* ET.fromstring(text): ParseError on a malformed text, otherwise the root
\* Element itself (not an ElementTree)
ET_fromstring(text) ==
  IF ~text.wf THEN [exc |-> "ParseError", cls |-> "none", elem |-> text.root]
  ELSE [exc |-> "none", cls |-> "Element", elem |-> text.root]

\* x.getroot(): only an ElementTree has this method
getroot(x) ==
  IF x.cls = "ElementTree" THEN [exc |-> "none", elem |-> x.elem]
  ELSE [exc |-> "AttributeError", elem |-> x.elem]

\* ----------------------------------------------------------- requests
\* keyword arguments accepted by requests.request / Session.request
SessionRequestArgs ==
  {"params", "data", "headers", "cookies", "files", "auth", "timeout",
   "allow_redirects", "proxies", "hooks", "stream", "verify", "cert", "json"}

HTTPBasicAuth(u, p) == <<u, p>>
NoAuth == <<>>
NoParams == <<>>

\* requests.get / requests.post: an unknown keyword is a TypeError raised
\* before anything is sent; otherwise the request goes on the wire
requests_call(method, url, kwnames, params, auth, headers) ==
  IF kwnames \subseteq SessionRequestArgs
  THEN [exc |-> "none",
        req |-> [method |-> method, url |-> url, params |-> params,
                 auth |-> auth, headers |-> headers]]
  ELSE [exc |-> "TypeError",
        req |-> [method |-> method, url |-> url, params |-> params,
                 auth |-> auth, headers |-> headers]]

\* ------------------------------------------------------- Pymoe.Mal.Objects
\* isinstance(data, cls): the record classes are unrelated classes
isinstance(data, cls) == data.cls = cls

\* data.to_xml(): the record serialised to the add/update payload
to_xml(data) == <<"data", data.cls, data.id>>

Anime(id, title, synonyms, episodes, average, anime_start, anime_end, synopsis, image, status_anime, type) ==
  [cls |-> "Anime", id |-> id, title |-> title, synonyms |-> synonyms,
   episodes |-> episodes, average |-> average, anime_start |-> anime_start,
   anime_end |-> anime_end, synopsis |-> synopsis, image |-> image,
   status |-> status_anime, type |-> type]

Manga(id, title, synonyms, chapters, volumes, average, manga_start, manga_end, synopsis, image, status_manga, type) ==
  [cls |-> "Manga", id |-> id, title |-> title, synonyms |-> synonyms,
   chapters |-> chapters, volumes |-> volumes, average |-> average,
   manga_start |-> manga_start, manga_end |-> manga_end,
   synopsis |-> synopsis, image |-> image, status |-> status_manga,
   type |-> type]

User(uid, name, anime_list, anime_complete, anime_onhold, anime_dropped, anime_planned, anime_watching, anime_days, manga_list, manga_completed, manga_onhold, manga_dropped, manga_planned, manga_watching, manga_days) ==
  [uid |-> uid, name |-> name,
   anime_list |-> anime_list, anime_complete |-> anime_complete,
   anime_onhold |-> anime_onhold, anime_dropped |-> anime_dropped,
   anime_planned |-> anime_planned, anime_watching |-> anime_watching,
   anime_days |-> anime_days,
   manga_list |-> manga_list, manga_completed |-> manga_completed,
   manga_onhold |-> manga_onhold, manga_dropped |-> manga_dropped,
   manga_planned |-> manga_planned, manga_watching |-> manga_watching,
   manga_days |-> manga_days]

NoUser ==
  User(None, None, <<>>, None, None, None, None, None, None,
       <<>>, None, None, None, None, None, None)

\* ------------------------------------------------------ outcome of a call
\* reqs: the requests put on the wire, in order; exc: the exception raised
\* ("none" when the call returns); msg: the exception's argument when it is
\* a response body; ret: what is returned ("True", "list", "User" or
\* "None"), with the list or the User record
NoText == [wf |-> FALSE, root |-> Leaf("", None)]

Raise(reqs, exc, msg) ==
  [reqs |-> reqs, exc |-> exc, msg |-> msg, ret |-> "None", list |-> <<>>,
   user |-> NoUser]
ReturnTrue(reqs) ==
  [reqs |-> reqs, exc |-> "none", msg |-> NoText, ret |-> "True",
   list |-> <<>>, user |-> NoUser]
ReturnList(reqs, l) ==
  [reqs |-> reqs, exc |-> "none", msg |-> NoText, ret |-> "list",
   list |-> l, user |-> NoUser]
ReturnUser(reqs, u) ==
  [reqs |-> reqs, exc |-> "none", msg |-> NoText, ret |-> "User",
   list |-> <<>>, user |-> u]
ReturnNone(reqs) ==
  [reqs |-> reqs, exc |-> "none", msg |-> NoText, ret |-> "None",
   list |-> <<>>, user |-> NoUser]

\* ------------------------------------------------------------------- MAL
\* variant of _verify_credentials that rejects only error statuses (>= 400)
_verify_credentials_errors_only(self, r) ==
  LET call == requests_call("GET",
                <<self.apiurl, "account/verify_credentials.xml">>,
                {"auth", "headers"}, NoParams,
                HTTPBasicAuth(self._username, self._password), self.header)
  IN IF r.status_code >= 400
     THEN Raise(<<call.req>>, "UserLoginFailed", NoText)
     ELSE ReturnNone(<<call.req>>)

\* MAL._verify_credentials
_verify_credentials(self, r) ==
  LET call == requests_call("GET",
                <<self.apiurl, "account/verify_credentials.xml">>,
                {"auth", "headers"}, NoParams,
                HTTPBasicAuth(self._username, self._password), self.header)
  IN IF call.exc /= "none" THEN Raise(<<>>, call.exc, NoText)
     ELSE IF r.status_code /= HTTP_OK
          THEN Raise(<<call.req>>, "UserLoginFailed", NoText)
          ELSE ReturnNone(<<call.req>>)

\* variant of __init__ that hands the object out whatever the verification
\* answered
init_ignores_verification(username, password, r) ==
  LET self == [apiurl |-> "https://myanimelist.net/api/",
               apiusers |-> "https://myanimelist.net/malappinfo.php",
               header |-> "User-Agent: Pymoe (git.vertinext.com/ccubed/Pymoe)",
               _username |-> username,
               _password |-> password]
      v == _verify_credentials(self, r)
  IN [self |-> self, reqs |-> v.reqs, exc |-> "none", state |-> "ready"]

\* MAL.__init__: the attributes, then the verification; an exception leaves
\* the caller without an object
__init__(username, password, r) ==
  LET self == [apiurl |-> "https://myanimelist.net/api/",
               apiusers |-> "https://myanimelist.net/malappinfo.php",
               header |-> "User-Agent: Pymoe (git.vertinext.com/ccubed/Pymoe)",
               _username |-> username,
               _password |-> password]
      v == _verify_credentials(self, r)
  IN [self |-> self, reqs |-> v.reqs, exc |-> v.exc,
      state |-> IF v.exc = "none" THEN "ready" ELSE "failed"]

\* the fields one search entry / list item must have for the loop body not
\* to raise AttributeError: every child looked up, and text on the two
\* children whose text is used as a str
AnimeTags ==
  {"synonyms", "id", "title", "english", "episodes", "score", "start_date",
   "end_date", "synopsis", "image", "status", "type"}
MangaTags ==
  {"synonyms", "id", "title", "english", "chapters", "volumes", "score",
   "start_date", "end_date", "synopsis", "image", "status", "type"}
item_ok(item, tags) ==
  /\ \A t \in tags : HasChild(item, t)
  /\ HasText(item, "synonyms")
  /\ HasText(item, "synopsis")

\* the loop body that builds one Anime from an element
anime_from_item(item) ==
  LET syn == split(Text(item, "synonyms"))
  IN Anime(find(item, "id").text,
           find(item, "title").text,
           list_append(syn, find(item, "english").text).ret,
           find(item, "episodes").text,
           find(item, "score").text,
           find(item, "start_date").text,
           find(item, "end_date").text,
           Some(html_unescape(replace_br(Text(item, "synopsis")))),
           find(item, "image").text,
           find(item, "status").text,
           find(item, "type").text)

\* the loop body that builds one Manga from an element
manga_from_item(item) ==
  LET syn == split(Text(item, "synonyms"))
  IN Manga(find(item, "id").text,
           find(item, "title").text,
           list_append(syn, find(item, "english").text).ret,
           find(item, "chapters").text,
           find(item, "volumes").text,
           find(item, "score").text,
           find(item, "start_date").text,
           find(item, "end_date").text,
           Some(html_unescape(replace_br(Text(item, "synopsis")))),
           find(item, "image").text,
           find(item, "status").text,
           find(item, "type").text)

\* variant of _search that parses the body before it looks at the status
search_parses_first(self, which, term, r) ==
  LET url == <<self.apiurl, IF which = 1 THEN "anime" ELSE "manga",
               "/search.xml">>
      call == requests_call("GET", url, {"params", "auth", "headers"},
                <<"q", term>>,
                HTTPBasicAuth(self._username, self._password), self.header)
      data == ET_fromstring(r.text)
  IN IF data.exc /= "none" THEN Raise(<<call.req>>, data.exc, NoText)
     ELSE IF r.status_code /= HTTP_OK THEN ReturnList(<<call.req>>, <<>>)
     ELSE Raise(<<call.req>>, getroot(data).exc, NoText)

\* MAL._search
_search(self, which, term, r) ==
  LET url == <<self.apiurl, IF which = 1 THEN "anime" ELSE "manga",
               "/search.xml">>
      call == requests_call("GET", url, {"params", "auth", "headers"},
                <<"q", term>>,
                HTTPBasicAuth(self._username, self._password), self.header)
      data == ET_fromstring(r.text)
      root == getroot(data)
      items == findall(root.elem, "entry")
  IN IF call.exc /= "none" THEN Raise(<<>>, call.exc, NoText)
     ELSE IF r.status_code /= HTTP_OK THEN ReturnList(<<call.req>>, <<>>)
     ELSE IF data.exc /= "none" THEN Raise(<<call.req>>, data.exc, NoText)
     ELSE IF root.exc /= "none" THEN Raise(<<call.req>>, root.exc, NoText)
     ELSE IF which = 1
          THEN IF \E i \in 1..Len(items) : ~item_ok(items[i], AnimeTags)
               THEN Raise(<<call.req>>, "AttributeError", NoText)
               ELSE ReturnList(<<call.req>>,
                      [i \in 1..Len(items) |-> anime_from_item(items[i])])
          ELSE IF \E i \in 1..Len(items) : ~item_ok(items[i], MangaTags)
               THEN Raise(<<call.req>>, "AttributeError", NoText)
               ELSE ReturnList(<<call.req>>,
                      [i \in 1..Len(items) |-> manga_from_item(items[i])])

\* MAL._search_anime, MAL._search_manga
_search_anime(self, term, r) == _search(self, 1, term, r)
_search_manga(self, term, r) == _search(self, 2, term, r)

\* variant of _anime_add that posts first and checks the class afterwards
anime_add_posts_first(self, data, r) ==
  LET call == requests_call("POST",
                <<self.apiurl, "animelist/add/", data.id, ".xml">>,
                {"params", "auth", "headers"}, to_xml(data),
                HTTPBasicAuth(self._username, self._password), self.header)
  IN IF ~isinstance(data, "Anime")
     THEN Raise(<<call.req>>, "SyntaxError", NoText)
     ELSE IF r.status_code /= HTTP_CREATED
          THEN Raise(<<call.req>>, "ServerError", r.text)
          ELSE ReturnTrue(<<call.req>>)

\* MAL._anime_add
_anime_add(self, data, r) ==
  IF isinstance(data, "Anime")
  THEN LET xmlstr == to_xml(data)
           call == requests_call("POST",
                     <<self.apiurl, "animelist/add/", data.id, ".xml">>,
                     {"params", "auth", "headers"}, xmlstr,
                     HTTPBasicAuth(self._username, self._password),
                     self.header)
       IN IF call.exc /= "none" THEN Raise(<<>>, call.exc, NoText)
          ELSE IF r.status_code /= HTTP_CREATED
               THEN Raise(<<call.req>>, "ServerError", r.text)
               ELSE ReturnTrue(<<call.req>>)
  ELSE Raise(<<>>, "SyntaxError", NoText)

\* variant of _manga_add that takes 200, the success status of update and
\* delete, for success
manga_add_expects_200(self, data, r) ==
  IF isinstance(data, "Manga")
  THEN LET call == requests_call("POST",
                     <<self.apiurl, "mangalist/add/", data.id, ".xml">>,
                     {"params", "auth", "headers"}, to_xml(data),
                     HTTPBasicAuth(self._username, self._password),
                     self.header)
       IN IF r.status_code /= HTTP_OK
          THEN Raise(<<call.req>>, "ServerError", r.text)
          ELSE ReturnTrue(<<call.req>>)
  ELSE Raise(<<>>, "SyntaxError", NoText)

\* MAL._manga_add
_manga_add(self, data, r) ==
  IF isinstance(data, "Manga")
  THEN LET xmlstr == to_xml(data)
           call == requests_call("POST",
                     <<self.apiurl, "mangalist/add/", data.id, ".xml">>,
                     {"params", "auth", "headers"}, xmlstr,
                     HTTPBasicAuth(self._username, self._password),
                     self.header)
       IN IF call.exc /= "none" THEN Raise(<<>>, call.exc, NoText)
          ELSE IF r.status_code /= HTTP_CREATED
               THEN Raise(<<call.req>>, "ServerError", r.text)
               ELSE ReturnTrue(<<call.req>>)
  ELSE Raise(<<>>, "SyntaxError", NoText)

\* MAL._anime_update: the header is passed under the keyword Headers
_anime_update(self, data, r) ==
  IF isinstance(data, "Anime")
  THEN LET xmlstr == to_xml(data)
           call == requests_call("POST",
                     <<self.apiurl, "animelist/update/", data.id, ".xml">>,
                     {"params", "auth", "Headers"}, xmlstr,
                     HTTPBasicAuth(self._username, self._password),
                     self.header)
       IN IF call.exc /= "none" THEN Raise(<<>>, call.exc, NoText)
          ELSE IF r.status_code /= HTTP_OK
               THEN Raise(<<call.req>>, "ServerError", r.text)
               ELSE ReturnTrue(<<call.req>>)
  ELSE Raise(<<>>, "SyntaxError", NoText)

\* MAL._manga_update
_manga_update(self, data, r) ==
  IF isinstance(data, "Manga")
  THEN LET xmlstr == to_xml(data)
           call == requests_call("POST",
                     <<self.apiurl, "mangalist/update/", data.id, ".xml">>,
                     {"params", "auth", "Headers"}, xmlstr,
                     HTTPBasicAuth(self._username, self._password),
                     self.header)
       IN IF call.exc /= "none" THEN Raise(<<>>, call.exc, NoText)
          ELSE IF r.status_code /= HTTP_OK
               THEN Raise(<<call.req>>, "ServerError", r.text)
               ELSE ReturnTrue(<<call.req>>)
  ELSE Raise(<<>>, "SyntaxError", NoText)

\* MAL._anime_delete: no payload, keyword Headers
_anime_delete(self, data, r) ==
  IF isinstance(data, "Anime")
  THEN LET call == requests_call("POST",
                     <<self.apiurl, "animelist/delete/", data.id, ".xml">>,
                     {"auth", "Headers"}, NoParams,
                     HTTPBasicAuth(self._username, self._password),
                     self.header)
       IN IF call.exc /= "none" THEN Raise(<<>>, call.exc, NoText)
          ELSE IF r.status_code /= HTTP_OK
               THEN Raise(<<call.req>>, "ServerError", r.text)
               ELSE ReturnTrue(<<call.req>>)
  ELSE Raise(<<>>, "SyntaxError", NoText)

\* variant of _manga_delete without the class check
manga_delete_unchecked(self, data, r) ==
  LET call == requests_call("POST",
                <<self.apiurl, "mangalist/delete/", data.id, ".xml">>,
                {"auth", "Headers"}, NoParams,
                HTTPBasicAuth(self._username, self._password), self.header)
  IN IF call.exc /= "none" THEN Raise(<<>>, call.exc, NoText)
     ELSE IF r.status_code /= HTTP_OK
          THEN Raise(<<call.req>>, "ServerError", r.text)
          ELSE ReturnTrue(<<call.req>>)

\* MAL._manga_delete
_manga_delete(self, data, r) ==
  IF isinstance(data, "Manga")
  THEN LET call == requests_call("POST",
                     <<self.apiurl, "mangalist/delete/", data.id, ".xml">>,
                     {"auth", "Headers"}, NoParams,
                     HTTPBasicAuth(self._username, self._password),
                     self.header)
       IN IF call.exc /= "none" THEN Raise(<<>>, call.exc, NoText)
          ELSE IF r.status_code /= HTTP_OK
               THEN Raise(<<call.req>>, "ServerError", r.text)
               ELSE ReturnTrue(<<call.req>>)
  ELSE Raise(<<>>, "SyntaxError", NoText)

\* the myinfo lookups of a list document succeed
myinfo_ok(root, tags) ==
  /\ HasChild(root, "myinfo")
  /\ \A t \in tags : HasChild(find(root, "myinfo"), t)

NoDict ==
  [data |-> <<>>, completed |-> None, onhold |-> None, dropped |-> None,
   planned |-> None, watching |-> None, days |-> None]

\* MAL.parse_anime_data
parse_anime_data(xml) ==
  LET tree == ET_fromstring(xml)
      root == getroot(tree)
      items == findall(root.elem, "anime")
      info == find(root.elem, "myinfo")
  IN IF tree.exc /= "none" THEN [exc |-> tree.exc, dict |-> NoDict]
     ELSE IF root.exc /= "none" THEN [exc |-> root.exc, dict |-> NoDict]
     ELSE IF \/ \E i \in 1..Len(items) : ~item_ok(items[i], AnimeTags)
             \/ ~myinfo_ok(root.elem,
                  {"user_completed", "user_onhold", "user_dropped",
                   "user_plantowatch", "user_watching",
                   "user_days_spent_watching"})
          THEN [exc |-> "AttributeError", dict |-> NoDict]
          ELSE [exc |-> "none",
                dict |->
                  [data |-> [i \in 1..Len(items) |-> anime_from_item(items[i])],
                   completed |-> find(info, "user_completed").text,
                   onhold |-> find(info, "user_onhold").text,
                   dropped |-> find(info, "user_dropped").text,
                   planned |-> find(info, "user_plantowatch").text,
                   watching |-> find(info, "user_watching").text,
                   days |-> find(info, "user_days_spent_watching").text]]

\* MAL.parse_manga_data
parse_manga_data(xml) ==
  LET tree == ET_fromstring(xml)
      root == getroot(tree)
      items == findall(root.elem, "manga")
      info == find(root.elem, "myinfo")
  IN IF tree.exc /= "none" THEN [exc |-> tree.exc, dict |-> NoDict]
     ELSE IF root.exc /= "none" THEN [exc |-> root.exc, dict |-> NoDict]
     ELSE IF \/ \E i \in 1..Len(items) : ~item_ok(items[i], MangaTags)
             \/ ~myinfo_ok(root.elem,
                  {"user_completed", "user_onhold", "user_dropped",
                   "user_plantoread", "user_reading",
                   "user_days_spent_watching"})
          THEN [exc |-> "AttributeError", dict |-> NoDict]
          ELSE [exc |-> "none",
                dict |->
                  [data |-> [i \in 1..Len(items) |-> manga_from_item(items[i])],
                   completed |-> find(info, "user_completed").text,
                   onhold |-> find(info, "user_onhold").text,
                   dropped |-> find(info, "user_dropped").text,
                   planned |-> find(info, "user_plantoread").text,
                   watching |-> find(info, "user_reading").text,
                   days |-> find(info, "user_days_spent_watching").text]]

\* MAL.user: both GETs are sent (without credentials, whatever the status),
\* then the anime document is parsed for the myinfo block, then both lists
user(self, name, anime_data, manga_data) ==
  LET g1 == requests_call("GET", <<self.apiusers>>, {"params", "headers"},
              <<"u", name, "status", "all", "type", "anime">>, NoAuth,
              self.header)
      g2 == requests_call("GET", <<self.apiusers>>, {"params", "headers"},
              <<"u", name, "status", "all", "type", "manga">>, NoAuth,
              self.header)
      tree == ET_fromstring(anime_data.text)
      root == getroot(tree)
      a == parse_anime_data(anime_data.text)
      m == parse_manga_data(manga_data.text)
  IN IF g1.exc /= "none" THEN Raise(<<>>, g1.exc, NoText)
     ELSE IF g2.exc /= "none" THEN Raise(<<g1.req>>, g2.exc, NoText)
     ELSE IF tree.exc /= "none"
          THEN Raise(<<g1.req, g2.req>>, tree.exc, NoText)
     ELSE IF root.exc /= "none"
          THEN Raise(<<g1.req, g2.req>>, root.exc, NoText)
     ELSE IF ~myinfo_ok(root.elem, {"user_id", "user_name"})
          THEN Raise(<<g1.req, g2.req>>, "AttributeError", NoText)
     ELSE IF a.exc /= "none" THEN Raise(<<g1.req, g2.req>>, a.exc, NoText)
     ELSE IF m.exc /= "none" THEN Raise(<<g1.req, g2.req>>, m.exc, NoText)
     ELSE ReturnUser(<<g1.req, g2.req>>,
            User(find(find(root.elem, "myinfo"), "user_id").text,
                 find(find(root.elem, "myinfo"), "user_name").text,
                 a.dict.data, a.dict.completed, a.dict.onhold,
                 a.dict.dropped, a.dict.planned, a.dict.watching,
                 a.dict.days,
                 m.dict.data, m.dict.completed, m.dict.onhold,
                 m.dict.dropped, m.dict.planned, m.dict.watching,
                 m.dict.days))

\* ------------------------------------------------------ sample documents
T(x) == Some(<<x>>)

\* one catalogue element with every child the two loop bodies look up
Item(tag, id, syn, english, synopsis) ==
  Node(tag, <<Leaf("id", T(id)), Leaf("title", T("title" \o id)),
              Leaf("english", english), Leaf("synonyms", syn),
              Leaf("episodes", T("12")), Leaf("chapters", T("40")),
              Leaf("volumes", T("4")), Leaf("score", T("8.1")),
              Leaf("start_date", T("2001-01-01")),
              Leaf("end_date", T("2002-01-01")),
              Leaf("synopsis", synopsis), Leaf("image", T("img" \o id)),
              Leaf("status", T("Finished")), Leaf("type", T("TV"))>>)

MyInfo(completed, planned) ==
  Node("myinfo", <<Leaf("user_id", T("7")), Leaf("user_name", T("alice")),
                   Leaf("user_watching", T("1")), Leaf("user_reading", T("2")),
                   Leaf("user_completed", T(completed)),
                   Leaf("user_onhold", T("0")), Leaf("user_dropped", None),
                   Leaf("user_plantowatch", T(planned)),
                   Leaf("user_plantoread", T(planned)),
                   Leaf("user_days_spent_watching", T("3.5"))>>)

BadXml == [wf |-> FALSE, root |-> Leaf("#text", T("<anime><entry>"))]
EmptyDoc == [wf |-> TRUE, root |-> Node("anime", <<>>)]
SearchDoc ==
  [wf |-> TRUE,
   root |-> Node("anime",
     <<Item("entry", "1", Some(<<"a", ";", "b">>), T("e1"),
            Some(<<"x", "<br />", "&amp;", "y">>)),
       Item("entry", "2", Some(<<"c">>), None, Some(<<"z">>))>>)]
AnimeListDoc ==
  [wf |-> TRUE,
   root |-> Node("myanimelist",
     <<MyInfo("5", "9"),
       Item("anime", "1", Some(<<"a", ";", "b">>), T("e1"), Some(<<"x">>))>>)]
MangaListDoc ==
  [wf |-> TRUE,
   root |-> Node("myanimelist",
     <<MyInfo("6", "8"),
       Item("manga", "3", Some(<<"m", ";">>), T("e3"), Some(<<"w">>))>>)]

\* the responses drawn for each kind of call: every status with a body the
\* call may read, and the bodies that make its parsing paths differ
SearchResponses ==
  [status_code : Statuses, text : {SearchDoc}]
    \cup [status_code : {200, 404}, text : {BadXml}]
    \cup [status_code : {200}, text : {EmptyDoc}]
AddResponses == [status_code : Statuses, text : {BadXml, EmptyDoc}]
ChangeResponses == [status_code : {200, 404}, text : {EmptyDoc}]
AnimeListResponses ==
  {[status_code |-> 200, text |-> AnimeListDoc],
   [status_code |-> 404, text |-> BadXml]}
MangaListResponses ==
  {[status_code |-> 200, text |-> MangaListDoc],
   [status_code |-> 200, text |-> BadXml]}
\* the responses to calls that never read the body
StatusOnly == [status_code : Statuses, text : {EmptyDoc}]
\* the arguments handed to add, update and delete
Datas == [cls : {"Anime", "Manga", "str"}, id : {"1"}]

\* ------------------------------------------------------------------ state
VARIABLES
  clients,  \* per object: "none" (not constructed), "failed" (constructor
            \* raised, nobody holds the object) or "ready", and its attributes
  ncalls,   \* the number of calls made so far (constructions included)
  given,    \* per object: the (username, password) passed to the constructor
  log,      \* the requests that reached the service, with the status answered
  last      \* the most recent call: its arguments, responses and outcome

vars == <<clients, ncalls, given, log, last>>

NoSelf ==
  [apiurl |-> "", apiusers |-> "", header |-> "", _username |-> "",
   _password |-> ""]
NoData == [cls |-> "", id |-> ""]
NoResp == [status_code |-> 0, text |-> NoText]

Call(op, c, u, p, data, term, r, r2, res) ==
  [op |-> op, client |-> c, username |-> u, password |-> p, data |-> data,
   term |-> term, r |-> r, r2 |-> r2, exc |-> res.exc, msg |-> res.msg,
   ret |-> res.ret, list |-> res.list, user |-> res.user,
   sent |-> Len(res.reqs)]

\* the requests of one call as they reach the service, each with the status
\* of its response
Wire(c, reqs, rs) ==
  [i \in 1..Len(reqs) |->
     [client |-> c, req |-> reqs[i], status |-> rs[i].status_code]]

Init ==
  /\ clients = [c \in ClientIds |-> [state |-> "none", self |-> NoSelf]]
  /\ ncalls = 0
  /\ given = [c \in ClientIds |-> <<>>]
  /\ log = <<>>
  /\ last = Call("none", "", "", "", NoData, "", NoResp, NoResp,
                 ReturnNone(<<>>))

\* MAL(username, password)
Construct(c) ==
  \E u \in Usernames, p \in Passwords, r \in StatusOnly :
    LET res == __init__(u, p, r)
    IN /\ clients[c].state = "none"
       /\ ncalls < MaxCalls
       /\ ncalls' = ncalls + 1
       /\ clients' = [clients EXCEPT ![c] =
                        [state |-> res.state, self |-> res.self]]
       /\ given' = [given EXCEPT ![c] = <<u, p>>]
       /\ log' = log \o Wire(c, res.reqs, <<r>>)
       /\ last' = Call("__init__", c, u, p, NoData, "", r, NoResp,
                       Raise(res.reqs, res.exc, NoText))

\* a method call on a constructed client: only the wire and the call record
\* change
Method(c, op, data, term, r, r2, res) ==
  /\ clients[c].state = "ready"
  /\ ncalls < MaxCalls
  /\ ncalls' = ncalls + 1
  /\ log' = log \o Wire(c, res.reqs, <<r, r2>>)
  /\ last' = Call(op, c, "", "", data, term, r, r2, res)
  /\ UNCHANGED <<clients, given>>

\* mal.anime.search(term), mal.manga.search(term)
SearchAnime(c) ==
  \E term \in Terms, r \in SearchResponses :
    Method(c, "anime.search", NoData, term, r, NoResp,
           _search_anime(clients[c].self, term, r))
SearchManga(c) ==
  \E term \in Terms, r \in SearchResponses :
    Method(c, "manga.search", NoData, term, r, NoResp,
           _search_manga(clients[c].self, term, r))

\* mal.anime.add(data), mal.manga.add(data)
AddAnime(c) ==
  \E data \in Datas, r \in AddResponses :
    Method(c, "anime.add", data, "", r, NoResp,
           _anime_add(clients[c].self, data, r))
AddManga(c) ==
  \E data \in Datas, r \in AddResponses :
    Method(c, "manga.add", data, "", r, NoResp,
           _manga_add(clients[c].self, data, r))

\* mal.anime.update(data), mal.manga.update(data)
UpdateAnime(c) ==
  \E data \in Datas, r \in ChangeResponses :
    Method(c, "anime.update", data, "", r, NoResp,
           _anime_update(clients[c].self, data, r))
UpdateManga(c) ==
  \E data \in Datas, r \in ChangeResponses :
    Method(c, "manga.update", data, "", r, NoResp,
           _manga_update(clients[c].self, data, r))

\* mal.anime.delete(data), mal.manga.delete(data)
DeleteAnime(c) ==
  \E data \in Datas, r \in ChangeResponses :
    Method(c, "anime.delete", data, "", r, NoResp,
           _anime_delete(clients[c].self, data, r))
DeleteManga(c) ==
  \E data \in Datas, r \in ChangeResponses :
    Method(c, "manga.delete", data, "", r, NoResp,
           _manga_delete(clients[c].self, data, r))

\* mal.user(name)
GetUser(c) ==
  \E name \in Names, r \in AnimeListResponses, r2 \in MangaListResponses :
    Method(c, "user", NoData, name, r, r2,
           user(clients[c].self, name, r, r2))

Next ==
  \E c \in ClientIds :
    \/ Construct(c)
    \/ SearchAnime(c)
    \/ SearchManga(c)
    \/ AddAnime(c)
    \/ AddManga(c)
    \/ UpdateAnime(c)
    \/ UpdateManga(c)
    \/ DeleteAnime(c)
    \/ DeleteManga(c)
    \/ GetUser(c)

Spec == Init /\ [][Next]_vars

\* ============================================================ properties
SearchOps == {"anime.search", "manga.search"}
AddOps == {"anime.add", "manga.add"}
ChangeOps == {"anime.update", "manga.update", "anime.delete", "manga.delete"}
AnimeOps == {"anime.search", "anime.add", "anime.update", "anime.delete"}
\* the record class an operation is about
KindOf(op) == IF op \in AnimeOps THEN "Anime" ELSE "Manga"
RightKind(call) == isinstance(call.data, KindOf(call.op))
VerifyUrl == <<"https://myanimelist.net/api/", "account/verify_credentials.xml">>
IsVerify(e) == e.req.method = "GET" /\ e.req.url = VerifyUrl

\* C1: constructing a client sends exactly one verification GET; any status
\* other than 200 makes the constructor raise UserLoginFailed and no client
\* is handed out; status 200 makes it succeed without error.
Thm_C1 ==
  last.op = "__init__" =>
    /\ last.sent = 1
    /\ Len(log) >= 1
    /\ IsVerify(log[Len(log)])
    /\ log[Len(log)].client = last.client
    /\ last.r.status_code /= 200 =>
         last.exc = "UserLoginFailed" /\ clients[last.client].state = "failed"
    /\ last.r.status_code = 200 =>
         last.exc = "none" /\ clients[last.client].state = "ready"
Wit_C1 ==
  /\ last.op = "__init__"
  /\ last.r.status_code = 201
  /\ last.exc = "UserLoginFailed"
  /\ \E c \in ClientIds : clients[c].state = "ready"

\* C2: addAnime with an Anime record and addManga with a Manga record return
\* true on status 201, and on every other status raise ServerError carrying
\* the response body, never returning true.
Thm_C2 ==
  (last.op \in AddOps /\ RightKind(last)) =>
    /\ last.sent = 1
    /\ last.r.status_code = 201 => last.exc = "none" /\ last.ret = "True"
    /\ last.r.status_code /= 201 =>
         /\ last.exc = "ServerError"
         /\ last.msg = last.r.text
         /\ last.ret /= "True"
Wit_C2 ==
  /\ last.op = "manga.add"
  /\ RightKind(last)
  /\ last.r.status_code = 200
  /\ last.exc = "ServerError"
  /\ last.msg = BadXml

\* C3: update and delete with a record of the matching kind send one POST and
\* return true on status 200, otherwise raise ServerError; nothing else can
\* happen.
Cex_C3 ==
  (last.op \in ChangeOps /\ RightKind(last)) =>
    /\ last.sent = 1
    /\ last.r.status_code = 200 => last.exc = "none" /\ last.ret = "True"
    /\ last.r.status_code /= 200 => last.exc = "ServerError"

\* C4: a search whose response status is not 200 returns the empty sequence
\* and raises nothing, whatever the body.
Thm_C4 ==
  (last.op \in SearchOps /\ last.r.status_code /= 200) =>
    last.exc = "none" /\ last.ret = "list" /\ last.list = <<>>
Wit_C4 ==
  /\ last.op \in SearchOps
  /\ last.r.status_code = 404
  /\ last.r.text = BadXml
  /\ last.ret = "list"

\* C5 (as stated): a record of the wrong kind given to add, update or delete
\* is rejected with TypeError.
Cex_C5 ==
  (last.op \in AddOps \cup ChangeOps /\ ~RightKind(last)) =>
    last.exc = "TypeError"
\* C5 (amended): a record of the wrong kind given to add, update or delete is
\* rejected with SyntaxError.
Thm_C5 ==
  (last.op \in AddOps \cup ChangeOps /\ ~RightKind(last)) =>
    last.exc = "SyntaxError" /\ last.ret = "None"
Wit_C5 ==
  /\ last.op = "manga.delete"
  /\ last.data.cls = "Anime"
  /\ last.exc = "SyntaxError"

\* C6: a search answered with status 200 and a well-formed document of N
\* entry elements returns N records of the requested kind, in document
\* order, whose fields are the texts of the entry's children (the synopsis
\* unescaped, without line-break tags).
Cex_C6 ==
  (last.op \in SearchOps /\ last.r.status_code = 200 /\ last.r.text.wf) =>
    LET items == findall(last.r.text.root, "entry")
    IN /\ last.exc = "none"
       /\ last.ret = "list"
       /\ Len(last.list) = Len(items)
       /\ \A i \in 1..Len(items) :
            /\ last.list[i].cls = KindOf(last.op)
            /\ last.list[i].id = find(items[i], "id").text
            /\ last.list[i].title = find(items[i], "title").text
            /\ last.list[i].average = find(items[i], "score").text
            /\ last.list[i].image = find(items[i], "image").text
            /\ last.list[i].status = find(items[i], "status").text
            /\ last.list[i].type = find(items[i], "type").text
            /\ last.list[i].synopsis =
                 Some(html_unescape(replace_br(Text(items[i], "synopsis"))))

\* C7: getUser sends exactly two GETs to the profile endpoint (anime list,
\* then manga list) and returns one User whose anime list and counts come
\* from the anime document, whose manga list and counts come from the manga
\* document, and whose id and name come from the myinfo block.
Cex_C7 ==
  (last.op = "user" /\ last.r.text.wf /\ last.r2.text.wf) =>
    LET ainfo == find(last.r.text.root, "myinfo")
        minfo == find(last.r2.text.root, "myinfo")
    IN /\ last.sent = 2
       /\ last.exc = "none"
       /\ last.ret = "User"
       /\ last.user.uid = find(ainfo, "user_id").text
       /\ last.user.name = find(ainfo, "user_name").text
       /\ Len(last.user.anime_list) = Len(findall(last.r.text.root, "anime"))
       /\ last.user.anime_complete = find(ainfo, "user_completed").text
       /\ last.user.anime_planned = find(ainfo, "user_plantowatch").text
       /\ last.user.anime_watching = find(ainfo, "user_watching").text
       /\ Len(last.user.manga_list) = Len(findall(last.r2.text.root, "manga"))
       /\ last.user.manga_completed = find(minfo, "user_completed").text
       /\ last.user.manga_planned = find(minfo, "user_plantoread").text
       /\ last.user.manga_watching = find(minfo, "user_reading").text

\* C8: every record parsed from an entry whose synonyms text is present has,
\* as synonyms, the sequence of strings obtained by splitting that text on
\* ';' (never None).
Cex_C8 ==
  LET items == findall(last.r.text.root, "entry")
  IN (/\ last.op \in SearchOps
      /\ last.r.status_code = 200
      /\ last.r.text.wf
      /\ Len(items) > 0
      /\ \A i \in 1..Len(items) : HasText(items[i], "synonyms")) =>
       /\ Len(last.list) = Len(items)
       /\ \A i \in 1..Len(items) :
            /\ ~last.list[i].synonyms.isNone
            /\ last.list[i].synonyms.v = split(Text(items[i], "synonyms"))

\* C9: when add, update or delete is given a value of the wrong kind, the
\* call sends no request and leaves the client's credentials, URLs and header
\* as they were.
Thm_C9 ==
  [][(last'.op \in AddOps \cup ChangeOps /\ ~RightKind(last')) =>
       (log' = log /\ clients' = clients /\ last'.sent = 0)]_vars
Wit_C9 ==
  /\ last.op = "anime.add"
  /\ last.data.cls = "Manga"
  /\ last.exc = "SyntaxError"
  /\ Len(log) = 2
  /\ clients[last.client].state = "ready"

====
